---- MODULE Spec2Model ----
(***************************************************************************)
(* Model of piptools/package_manager.py: the in-memory package index       *)
(* (FakePackageManager) and the remote index (PackageManager) with its     *)
(* location cache, dependency cache and recursive dependency walk.         *)
(*                                                                         *)
(* Text is modelled as a sequence of tokens: a package key "foo-0.1" is    *)
(* <<"foo", "-", "0.1">>, so that splitting and formatting are computed.   *)
(* The code is Python 2 (filter() returns a list).                         *)
(***************************************************************************)
EXTENDS Integers, Sequences, FiniteSets, TLC

VARIABLES
    contents,          \* FakePackageManager._contents: key -> list of spec lines
    arg,               \* the spec the caller of the in-memory index asks about
    ret,               \* the outcome of the last completed call
    link_cache,        \* PackageManager._link_cache: spec string -> link
    dependency_cache,  \* PackageManager._dependency_cache: path -> deps or None
    fs,                \* the files that exist under cache_path
    eggBroken,         \* the archives whose setup.py egg_info exits non-zero
    calls,             \* the number of calls the caller has made
    tmpdirs,           \* the temporary build directories that exist
    stack,             \* the frames of get_all_dependencies, innermost last
    specs,             \* the list get_dependencies hands to the walk
    root,              \* the spec string the running walk started from
    queryCount,        \* spec string -> number of repository queries made
    lookups,           \* spec string -> number of find_best_match calls
    unpackCount,       \* path -> number of unpack_archive calls
    eggInfoCount,      \* path -> number of metadata generation runs
    extractCalls,      \* path -> number of extract_dependencies calls
    returned           \* spec string -> versions find_best_match returned

\* the caller's position and the counters come first, the values that may
\* be None or a list last
vars == <<calls, stack, lookups, extractCalls, queryCount, unpackCount, eggInfoCount,
          tmpdirs, root, fs, eggBroken, contents, arg, specs, returned,
          link_cache, dependency_cache, ret>>

fakeVars == <<contents, arg>>

pmVars == <<link_cache, dependency_cache, fs, eggBroken, calls, tmpdirs, stack, specs, root,
            queryCount, lookups, unpackCount, eggInfoCount, extractCalls, returned>>

(***************************************************************************)
(* Bounds.                                                                 *)
(***************************************************************************)
MaxPreds == 2

MaxCalls == 2

MaxMissing == 1

MaxBroken == 1

MaxDepth == 6

None == <<"None">>

(***************************************************************************)
(* Versions (piptools/version.py, NormalizedVersion).                      *)
(***************************************************************************)
VersionTexts == {"0.1", "0.2", "0.9", "1.0", "1.0.0", "1.5", "1.9", "2.0", "3.0"}

\* the release segments a version text is read as
VersionDigits(text) ==
    CASE text = "0.1"   -> <<0, 1>>
      [] text = "0.2"   -> <<0, 2>>
      [] text = "0.9"   -> <<0, 9>>
      [] text = "1.0"   -> <<1, 0>>
      [] text = "1.0.0" -> <<1, 0, 0>>
      [] text = "1.5"   -> <<1, 5>>
      [] text = "1.9"   -> <<1, 9>>
      [] text = "2.0"   -> <<2, 0>>
      [] text = "3.0"   -> <<3, 0>>

RECURSIVE DropTrailingZeros(_)
DropTrailingZeros(nums) ==
    IF Len(nums) > 0 /\ nums[Len(nums)] = 0
    THEN DropTrailingZeros(SubSeq(nums, 1, Len(nums) - 1))
    ELSE nums

\* NormalizedVersion(text): the major.minor pair is kept, the further
\* segments lose their trailing zeros
NormalizeDigits(nums) ==
    SubSeq(nums, 1, 2) \o DropTrailingZeros(SubSeq(nums, 3, Len(nums)))

NormalizedVersion(text) == NormalizeDigits(VersionDigits(text))

\* str(NormalizedVersion): the text of the normalized segments
VersionStr(parts) ==
    CHOOSE text \in VersionTexts : VersionDigits(text) = parts

\* the ordering of normalized versions: tuples compare segment by segment,
\* a proper prefix is the smaller one
RECURSIVE VersionLess(_, _)
VersionLess(a, b) ==
    IF Len(a) = 0 THEN Len(b) > 0
    ELSE IF Len(b) = 0 THEN FALSE
    ELSE IF a[1] # b[1] THEN a[1] < b[1]
    ELSE VersionLess(Tail(a), Tail(b))

VersionMax(vs) ==
    CHOOSE m \in vs : \A v \in vs : ~ VersionLess(m, v)

(***************************************************************************)
(* Spec (piptools/datastructures.py).                                      *)
(***************************************************************************)
Quals == {"==", "<", ">", "<=", ">="}

NewSpec(name, preds, source) == [name |-> name, preds |-> preds, source |-> source]

\* the position of the first operator token of a line, Len + 1 when none
RECURSIVE FirstQual(_, _)
FirstQual(toks, i) ==
    IF i > Len(toks) THEN i
    ELSE IF toks[i] \in Quals THEN i
    ELSE FirstQual(toks, i + 1)

\* the comma-separated (operator, version) pairs after the name
RECURSIVE ParsePreds(_)
ParsePreds(toks) ==
    IF Len(toks) < 2 THEN <<>>
    ELSE IF toks[1] = "," THEN ParsePreds(Tail(toks))
    ELSE << <<toks[1], toks[2]>> >> \o ParsePreds(SubSeq(toks, 3, Len(toks)))

\* Spec.from_line(line, source): blanks are dropped, the name runs up to the
\* first operator
SplitAtQual(toks, q, source) ==
    NewSpec(SubSeq(toks, 1, q - 1), ParsePreds(SubSeq(toks, q, Len(toks))), source)

NotBlank(t) == t # " "

SpecFromTokens(toks, source) == SplitAtQual(toks, FirstQual(toks, 1), source)

SpecFromLine(line, source) == SpecFromTokens(SelectSeq(line, NotBlank), source)

RECURSIVE PredsStr(_)
PredsStr(preds) ==
    IF preds = <<>> THEN <<>>
    ELSE <<preds[1][1], preds[1][2]>> \o
         (IF Len(preds) > 1 THEN <<",">> ELSE <<>>) \o PredsStr(Tail(preds))

\* str(spec): the name followed by the predicates, comma separated
SpecStr(spec) == spec.name \o PredsStr(spec.preds)

(***************************************************************************)
(* FakePackageManager.                                                     *)
(***************************************************************************)
\* the position of the last "-" token of a key, 0 when there is none
RECURSIVE LastHyphen(_, _)
LastHyphen(key, i) ==
    IF i = 0 THEN 0
    ELSE IF key[i] = "-" THEN i
    ELSE LastHyphen(key, i - 1)

\* pkg_key.split('-'): a split at every hyphen
RECURSIVE parse_package_key_split(_)
parse_package_key_split(pkg_key) ==
    LET h == LastHyphen(pkg_key, Len(pkg_key))
    IN  IF h = 0 THEN <<pkg_key>>
        ELSE Append(parse_package_key_split(SubSeq(pkg_key, 1, h - 1)),
                    SubSeq(pkg_key, h + 1, Len(pkg_key)))

\* pkg_key.rsplit('-', 1)
parse_package_key(pkg_key) ==
    LET h == LastHyphen(pkg_key, Len(pkg_key))
    IN  IF h = 0 THEN <<pkg_key>>
        ELSE <<SubSeq(pkg_key, 1, h - 1), SubSeq(pkg_key, h + 1, Len(pkg_key))>>

\* '%s-%s' % (name, version)
PkgKey(name, version) == name \o <<"-">> \o <<version>>

iter_package_versions(index) == {parse_package_key(key) : key \in DOMAIN index}

iter_versions(index, given_name) ==
    {nv[2][1] : nv \in {p \in iter_package_versions(index) : p[1] = given_name}}

\* ops[qual](a, b) on two normalized versions
ApplyQual(a, qual, b) ==
    CASE qual = "==" -> a = b
      [] qual = "<"  -> VersionLess(a, b)
      [] qual = ">"  -> VersionLess(b, a)
      [] qual = "<=" -> VersionLess(a, b) \/ a = b
      [] qual = ">=" -> VersionLess(b, a) \/ a = b

matches_qual(version, qual, value) ==
    ApplyQual(NormalizedVersion(version), qual, NormalizedVersion(value))

\* a pick that takes the lowest version
pick_lowest(list_of_versions) ==
    VersionStr(CHOOSE m \in {NormalizedVersion(v) : v \in list_of_versions} :
                  \A v \in list_of_versions : ~ VersionLess(NormalizedVersion(v), m))

pick_highest(list_of_versions) ==
    VersionStr(VersionMax({NormalizedVersion(v) : v \in list_of_versions}))

\* a filter that stops after the first predicate
FilterFirstPred(versions, preds) ==
    IF preds = <<>> THEN versions
    ELSE {v \in versions : matches_qual(v, preds[1][1], preds[1][2])}

\* a filter in which every predicate filters the whole list again
FilterLastPred(versions, preds) ==
    IF preds = <<>> THEN versions
    ELSE {v \in versions :
            matches_qual(v, preds[Len(preds)][1], preds[Len(preds)][2])}

\* the loop of find_best_match: each predicate filters what the previous left
RECURSIVE FilterPreds(_, _)
FilterPreds(versions, preds) ==
    IF preds = <<>> THEN versions
    ELSE FilterPreds({v \in versions : matches_qual(v, preds[1][1], preds[1][2])},
                     Tail(preds))

Outcome(op, args, kind, value) == [op |-> op, args |-> args, kind |-> kind, value |-> value]

\* lines 107-109: raise NoPackageMatch on an empty list, else pick the highest
BestOf(spec, versions) ==
    IF Cardinality(versions) = 0
    THEN Outcome("find_best_match", spec, "raise", "NoPackageMatch")
    ELSE Outcome("find_best_match", spec, "return", pick_highest(versions))

fake_find_best_match(index, spec) ==
    BestOf(spec, FilterPreds(iter_versions(index, spec.name), spec.preds))

\* lines 113-116: one Spec per line of self._contents[pkg_key]
SpecsOfKey(index, pkg_key, args) ==
    IF pkg_key \notin DOMAIN index
    THEN Outcome("get_dependencies", args, "raise", "KeyError")
    ELSE Outcome("get_dependencies", args, "return",
                 [i \in 1..Len(index[pkg_key]) |-> SpecFromLine(index[pkg_key][i], None)])

fake_get_dependencies(index, name, version) ==
    SpecsOfKey(index, PkgKey(name, version), <<name, version>>)

(***************************************************************************)
(* The in-memory indexes and the queries tried on them.                    *)
(***************************************************************************)
FixtureContents ==
    (<<"foo", "-", "0.1">> :> << <<"bar">>, <<"qux">> >>) @@
    (<<"bar", "-", "0.2">> :> << <<"qux", ">", "0.1">> >>) @@
    (<<"qux", "-", "0.1">> :> <<>>) @@
    (<<"qux", "-", "0.2">> :> <<>>)

PkgVersions == {"0.9", "1.0", "1.0.0", "1.5", "1.9", "2.0"}

PredValues == {"1.0", "2.0", "3.0"}

FakeNames == {<<"pkg">>, <<"qux">>, <<"foo">>, <<"nope">>}

FakeIndexes ==
    {[key \in DOMAIN FixtureContents \cup {PkgKey(<<"pkg">>, v) : v \in vs} |->
         IF key \in DOMAIN FixtureContents THEN FixtureContents[key] ELSE <<>>] :
       vs \in SUBSET PkgVersions}

RECURSIVE SeqsUpTo(_, _)
SeqsUpTo(S, n) ==
    IF n = 0 THEN {<<>>}
    ELSE LET shorter == SeqsUpTo(S, n - 1)
         IN  shorter \cup {Append(s, x) : s \in shorter, x \in S}

FakeSpecs ==
    {NewSpec(name, preds, None) :
       name \in FakeNames, preds \in SeqsUpTo(Quals \X PredValues, MaxPreds)}

NoCall == Outcome("none", <<>>, "return", <<>>)

PMIdle ==
    /\ link_cache = <<>>
    /\ dependency_cache = <<>>
    /\ fs = {}
    /\ eggBroken = {}
    /\ calls = 0
    /\ tmpdirs = {}
    /\ stack = <<>>
    /\ specs = <<>>
    /\ root = <<>>
    /\ queryCount = <<>>
    /\ lookups = <<>>
    /\ unpackCount = <<>>
    /\ eggInfoCount = <<>>
    /\ extractCalls = <<>>
    /\ returned = <<>>

InitFake ==
    /\ contents \in FakeIndexes
    /\ arg \in FakeSpecs
    /\ ret = NoCall
    /\ PMIdle

\* the caller asks for the best match of arg
FakeFindBestMatch ==
    /\ ret.op = "none"
    /\ ret' = fake_find_best_match(contents, arg)
    /\ UNCHANGED <<fakeVars, pmVars>>

\* the caller asks for the dependencies of a concrete version of arg.name
FakeGetDependencies ==
    /\ ret.op = "none"
    /\ \E version \in VersionTexts :
          ret' = fake_get_dependencies(contents, arg.name, version)
    /\ UNCHANGED <<fakeVars, pmVars>>

\* the caller asks for the dependencies of the best match it was given
FakeGetDependenciesOfBest ==
    /\ ret.op = "find_best_match"
    /\ ret.kind = "return"
    /\ ret' = fake_get_dependencies(contents, arg.name, ret.value)
    /\ UNCHANGED <<fakeVars, pmVars>>

\* the predicates of a spec in every order
Reordered(preds) ==
    {[i \in 1..Len(preds) |-> preds[p[i]]] : p \in Permutations(1..Len(preds))}

\* the caller asks again, for the same spec with its predicates reordered
FakeFindBestMatchReordered ==
    /\ ret.op = "find_best_match"
    /\ \E preds \in Reordered(arg.preds) :
          ret' = fake_find_best_match(contents, [arg EXCEPT !.preds = preds])
    /\ UNCHANGED <<fakeVars, pmVars>>

NextFake ==
    \/ FakeFindBestMatch
    \/ FakeGetDependencies
    \/ FakeGetDependenciesOfBest
    \/ FakeFindBestMatchReordered

SpecFake == InitFake /\ [][NextFake]_vars

(***************************************************************************)
(* The package repository and the archives it serves (the collaborators of *)
(* PackageManager: PackageFinder, the archive files, setup.py egg_info).   *)
(***************************************************************************)
Archive(name, version, ext, requires) ==
    [name |-> name, version |-> version, ext |-> ext, requires |-> requires]

NL == "\n"

\* requires is the text of the generated requires.txt, line by line, or None
\* when egg_info leaves no requires.txt
Archives ==
    {Archive(<<"foo">>, "0.1", ".tar.gz",
             << <<"bar", NL>>, <<"qux", NL>>, <<NL>>, <<"[test]", NL>>, <<"gone", NL>> >>),
     Archive(<<"bar">>, "0.2", ".zip",
             << <<" ", "qux", ">", "0.1", NL>>, <<"[test]", NL>>, <<"odd", NL>> >>),
     Archive(<<"qux">>, "0.1", ".tar.gz", None),
     Archive(<<"qux">>, "0.2", ".tar.bz2", << <<"baz", NL>> >>),
     Archive(<<"baz">>, "1.0", ".tgz", <<>>),
     Archive(<<"odd">>, "1.0", ".rar", << <<"foo", NL>> >>)}

\* further archives: an extras section that is not [test], a dependency with
\* an archive that cannot be unpacked, a dependency the repository does not
\* hold, and two packages that depend on each other
OtherArchives ==
    {Archive(<<"ext">>, "1.0", ".tar",
             << <<"baz", NL>>, <<"[dev]", NL>>, <<"qux", NL>> >>),
     Archive(<<"mix">>, "1.0", ".tar.gz", << <<"odd", NL>>, <<"baz", NL>> >>),
     Archive(<<"lost">>, "1.0", ".tar.gz", << <<"gone", NL>>, <<"baz", NL>> >>),
     Archive(<<"a">>, "1.0", ".tar.gz", << <<"b", NL>> >>),
     Archive(<<"b">>, "1.0", ".tar.gz", << <<"a", NL>> >>)}

Repository == Archives \cup OtherArchives

\* the link the repository gives for an archive
Link(a) ==
    [filename |-> a.name \o <<"-", a.version, a.ext>>,
     url_without_fragment |-> <<"http://pypi/">> \o a.name \o <<"-", a.version, a.ext>>]

\* finder.find_requirement(requirement, False): the link of the highest
\* version the repository holds that satisfies the requirement, or
\* DistributionNotFound
\* the archives of the repository that satisfy a requirement
Candidates(requirement) ==
    {a \in Repository :
       /\ a.name = requirement.name
       /\ \A i \in 1..Len(requirement.preds) :
             matches_qual(a.version, requirement.preds[i][1], requirement.preds[i][2])}

BestCandidate(found) ==
    IF found = {} THEN [kind |-> "raise", value |-> "DistributionNotFound"]
    ELSE [kind |-> "return",
          value |-> Link(CHOOSE a \in found : \A b \in found :
                        ~ VersionLess(NormalizedVersion(a.version),
                                      NormalizedVersion(b.version)))]

\* the repository does not change: its answers to the spec strings of the
\* model are worked out once
AskedLines ==
    {a.name \o <<"==", a.version>> : a \in Repository}
    \cup {a.name : a \in Repository}
    \cup {<<"gone">>, <<"gone", "==", "1.0">>, <<"qux", ">", "0.1">>}

Answers == [line \in AskedLines |-> BestCandidate(Candidates(SpecFromLine(line, None)))]

find_requirement(line) ==
    IF line \in AskedLines THEN Answers[line]
    ELSE BestCandidate(Candidates(SpecFromLine(line, None)))

(***************************************************************************)
(* PackageManager.                                                         *)
(***************************************************************************)
cache_path == <<"~/.pip-tools/cache/">>

\* quote(url, ''): the characters outside the safe set are percent-encoded
quote(url) ==
    [i \in 1..Len(url) |->
        IF url[i] = "http://pypi/" THEN "http%3A%2F%2Fpypi%2F" ELSE url[i]]

get_local_package_path(url) == cache_path \o quote(url)

\* splitext(filename)[0]: the file name without its archive extension
splitext(filename) == SubSeq(filename, 1, Len(filename) - 1)

Bump(counter, key) ==
    IF key \in DOMAIN counter THEN [counter EXCEPT ![key] = @ + 1]
    ELSE counter @@ (key :> 1)

\* a cache test that never finds the link
LinkNeverCached(lc, key) == FALSE

\* line 149: str(spec) in self._link_cache
LinkCached(lc, key) == key \in DOMAIN lc

\* find_best_match(spec) of PackageManager on the caches lc (links) and the
\* query counter qc; key is str(spec)
\* line 160: the version of a link, the text after the last hyphen of its
\* file name without the extension
VersionOfLink(link) == parse_package_key(splitext(link.filename))[2][1]

\* lines 159-161 on the link cache lc2
BestFromCache(lc2, qc2, key) ==
    [link_cache |-> lc2, queryCount |-> qc2, kind |-> "return",
     value |-> VersionOfLink(lc2[key])]

\* lines 150-158: the query of a spec string the cache does not hold; found
\* is what the repository answers
QueryAndStore(lc, qc2, key, found) ==
    IF found.kind = "raise"
    THEN [link_cache |-> lc, queryCount |-> qc2, kind |-> "raise", value |-> found.value]
    ELSE BestFromCache((key :> found.value) @@ lc, qc2, key)

pm_find_best_match(lc, qc, key) ==
    IF LinkCached(lc, key) THEN BestFromCache(lc, qc, key)
    ELSE QueryAndStore(lc, Bump(qc, key), key, find_requirement(key))

\* get_package_location(spec): the download of a missing archive calls
\* self.download_packge, a name PackageManager does not define
\* lines 177-184: the archive at fullpath is returned when it exists
ArchiveOrDownload(best, fullpath, files) ==
    IF fullpath \in files
    THEN [best EXCEPT !.value = fullpath]
    ELSE [best EXCEPT !.kind = "raise", !.value = "AttributeError"]

\* lines 174-184, after find_best_match gave best
LocateLink(best, files, key) ==
    IF best.kind = "raise" THEN best
    ELSE ArchiveOrDownload(
             best, get_local_package_path(best.link_cache[key].url_without_fragment), files)

get_package_location(lc, qc, files, key) ==
    LocateLink(pm_find_best_match(lc, qc, key), files, key)

\* the archive stored at a local path
StoredAt ==
    [a \in Repository |-> get_local_package_path(Link(a).url_without_fragment)]

ArchiveAt(path) == CHOOSE a \in Repository : StoredAt[a] = path

ArchivePaths ==
    {get_local_package_path(Link(a).url_without_fragment) : a \in Archives}

OtherPaths ==
    {get_local_package_path(Link(a).url_without_fragment) : a \in OtherArchives}

\* unpack_archive(path, target_directory): TRUE when the archive unpacks
unpack_archive(path) ==
    LET last == path[Len(path)]
    IN  \/ last \in {".tar.gz", ".tar", ".tar.bz2", ".tgz"}
        \/ last = ".zip"

\* has_egg_info(dist_dir): whether setup.py egg_info exits with 0
has_egg_info(broken, path) == path \notin broken

\* requirement.strip()
RECURSIVE strip(_)
strip(line) ==
    IF line = <<>> THEN line
    ELSE IF line[1] \in {" ", NL} THEN strip(Tail(line))
    ELSE IF line[Len(line)] \in {" ", NL} THEN strip(SubSeq(line, 1, Len(line) - 1))
    ELSE line

\* the loop over requirements.readlines(): stops at '[test]' or a blank line
RECURSIVE ReadDeps(_)
ReadDeps(lines) ==
    IF lines = <<>> THEN <<>>
    ELSE LET dep == strip(lines[1])
         IN  IF dep = <<"[test]">> \/ dep = <<>> THEN <<>>
             ELSE <<dep>> \o ReadDeps(Tail(lines))

\* a cache test that takes the "no dependencies found" marker for a miss
DepsCachedUnlessMarker(dc, path) == path \in DOMAIN dc /\ dc[path] # None

\* line 271: path in self._dependency_cache
DepsCached(dc, path) == path \in DOMAIN dc

\* extract_dependencies(path) on the dependency cache dc; the result carries
\* the new cache, the counters and the temporary directories left behind
\* lines 278-301: what the unpacked archive gives, the marker None when
\* egg_info fails or leaves no requires.txt
DepsOfArchive(broken, path, requires) ==
    IF ~ has_egg_info(broken, path) \/ requires = None THEN None
    ELSE ReadDeps(requires)

\* a store that starts the cache afresh
StoreDepsAlone(dc, uc2, ec2, tmp, path, deps) ==
    [dependency_cache |-> (path :> deps), unpackCount |-> uc2,
     eggInfoCount |-> ec2, tmpdirs |-> tmp, kind |-> "return", value |-> deps]

\* lines 280, 292, 303: the result is stored and the build directory removed
StoreDeps(dc, uc2, ec2, tmp, path, deps) ==
    [dependency_cache |-> (path :> deps) @@ dc, unpackCount |-> uc2,
     eggInfoCount |-> ec2, tmpdirs |-> tmp, kind |-> "return", value |-> deps]

\* lines 272-303: the build directory is made, the archive unpacked
Unpack(dc, uc2, ec, tmp, broken, path) ==
    IF ~ unpack_archive(path)
    THEN [dependency_cache |-> dc, unpackCount |-> uc2, eggInfoCount |-> ec,
          tmpdirs |-> tmp \cup {Cardinality(tmp) + 1},
          kind |-> "raise", value |-> "AssertionError"]
    ELSE StoreDeps(dc, uc2, Bump(ec, path), tmp, path,
                   DepsOfArchive(broken, path, ArchiveAt(path).requires))

\* a cache hit that gives the marker instead of the stored list
CachedMarker(dc, path) == None

\* line 304: return self._dependency_cache[path]
CachedDeps(dc, path) == dc[path]

extract_dependencies(dc, uc, ec, tmp, broken, path) ==
    IF DepsCached(dc, path)
    THEN [dependency_cache |-> dc, unpackCount |-> uc, eggInfoCount |-> ec,
          tmpdirs |-> tmp, kind |-> "return", value |-> CachedDeps(dc, path)]
    ELSE Unpack(dc, Bump(uc, path), ec, tmp, broken, path)

\* "if not deps": None and the empty list both end the walk of a package
NoDeps(deps) == deps = None \/ deps = <<>>

Frame(spec, source, pc, path, deps) ==
    [spec |-> spec, source |-> source, pc |-> pc, path |-> path, deps |-> deps, i |-> 1]

Top == stack[Len(stack)]

Pop == SubSeq(stack, 1, Len(stack) - 1)

Idle == stack = <<>>

\* the spec strings and the concrete packages the caller asks about
PMSpecLines ==
    {<<"qux">>, <<"qux", ">", "0.1">>, <<"gone">>, <<"baz">>, <<"odd">>}

PMRoots ==
    {<<a.name, a.version>> : a \in Archives} \cup {<< <<"gone">>, "1.0" >>}
    \cup {<< <<"ext">>, "1.0" >>, << <<"mix">>, "1.0" >>, << <<"lost">>, "1.0" >>,
          << <<"a">>, "1.0" >>}

InitPM ==
    /\ contents = <<>>
    /\ arg = NewSpec(<<>>, <<>>, None)
    /\ ret = NoCall
    /\ link_cache = <<>>
    /\ dependency_cache = <<>>
    /\ \E missing \in SUBSET ArchivePaths :
          /\ Cardinality(missing) <= MaxMissing
          /\ fs = (ArchivePaths \ missing) \cup OtherPaths
    /\ eggBroken \in {b \in SUBSET ArchivePaths : Cardinality(b) <= MaxBroken}
    /\ calls = 0
    /\ tmpdirs = {}
    /\ stack = <<>>
    /\ specs = <<>>
    /\ root = <<>>
    /\ queryCount = <<>>
    /\ lookups = <<>>
    /\ unpackCount = <<>>
    /\ eggInfoCount = <<>>
    /\ extractCalls = <<>>
    /\ returned = <<>>

\* the caches and the outcome after a call that looked the link of key up
Looked(op, key, r) ==
    /\ link_cache' = r.link_cache
    /\ queryCount' = r.queryCount
    /\ lookups' = Bump(lookups, key)
    /\ ret' = Outcome(op, key, r.kind, r.value)

\* the caches and the outcome after extract_dependencies(path) gave r
Extracted(path, r) ==
    /\ dependency_cache' = r.dependency_cache
    /\ unpackCount' = r.unpackCount
    /\ eggInfoCount' = r.eggInfoCount
    /\ tmpdirs' = r.tmpdirs
    /\ extractCalls' = Bump(extractCalls, path)

\* a direct call of find_best_match(spec)
PMFindBestMatch ==
    /\ Idle
    /\ calls < MaxCalls
    /\ \E key \in PMSpecLines :
          Looked("find_best_match", key, pm_find_best_match(link_cache, queryCount, key))
    /\ returned' = IF ret'.kind = "return"
                   THEN IF ret'.args \in DOMAIN returned
                        THEN [returned EXCEPT ![ret'.args] = @ \cup {ret'.value}]
                        ELSE returned @@ (ret'.args :> {ret'.value})
                   ELSE returned
    /\ calls' = calls + 1
    /\ UNCHANGED <<fakeVars, dependency_cache, fs, eggBroken, tmpdirs, stack, specs,
                   root, unpackCount, eggInfoCount, extractCalls>>

\* a direct call of get_package_location(spec)
PMGetPackageLocation ==
    /\ Idle
    /\ calls < MaxCalls
    /\ \E key \in PMSpecLines :
          Looked("get_package_location", key,
                 get_package_location(link_cache, queryCount, fs, key))
    /\ calls' = calls + 1
    /\ UNCHANGED <<fakeVars, dependency_cache, fs, eggBroken, tmpdirs, stack, specs,
                   root, unpackCount, eggInfoCount, extractCalls, returned>>

ExtractedDirectly(path, r) ==
    /\ Extracted(path, r)
    /\ ret' = Outcome("extract_dependencies", path, r.kind, r.value)

\* a direct call of extract_dependencies(path) on a stored archive
PMExtractDependencies ==
    /\ Idle
    /\ calls < MaxCalls
    /\ \E path \in fs \cap ArchivePaths :
          ExtractedDirectly(path,
              extract_dependencies(dependency_cache, unpackCount, eggInfoCount,
                                   tmpdirs, eggBroken, path))
    /\ calls' = calls + 1
    /\ UNCHANGED <<fakeVars, lookups, link_cache, fs, eggBroken, stack, specs, root,
                   queryCount, returned>>

\* get_dependencies(name, version) up to the first call of get_all_dependencies
PMGetDependencies ==
    /\ Idle
    /\ calls < MaxCalls
    /\ \E nv \in PMRoots :
          /\ root' = SpecStr(SpecFromLine(nv[1] \o <<"==", nv[2]>>, None))
          /\ ret' = Outcome("get_dependencies", nv, "running", <<>>)
    /\ stack' = <<Frame(root', ret'.args[1], "locate", <<>>, <<>>)>>
    /\ specs' = <<>>
    /\ calls' = calls + 1
    /\ UNCHANGED <<fakeVars, lookups, link_cache, dependency_cache, fs, eggBroken, tmpdirs,
                   queryCount, unpackCount, eggInfoCount, extractCalls, returned>>

\* a get_dependencies that gives what get_all_dependencies returns: None
FinishWithWalkResult(kind, value, list) ==
    /\ ret' = Outcome("get_dependencies", ret.args, kind, None)
    /\ specs' = list

\* what get_dependencies gives its caller when the walk returns / raises
Finish(kind, value, list) ==
    /\ ret' = Outcome("get_dependencies", ret.args, kind, value)
    /\ specs' = list

\* the frame on top returns: its caller goes on with its loop
Return ==
    /\ stack' = Pop
    /\ IF Len(stack) = 1 THEN Finish("return", specs, specs)
       ELSE UNCHANGED <<ret, specs>>

\* an exception that is caught where it is raised: the frame just returns
RaiseSwallowed(exc) == Return

\* an exception leaves every frame; the list of get_dependencies is dropped.
\* What get_dependencies gives is a sequence in every case: the Specs, or the
\* name of the exception alone
Raise(exc) ==
    /\ stack' = <<>>
    /\ Finish("raise", <<exc>>, <<>>)

Located(r) ==
    /\ link_cache' = r.link_cache
    /\ queryCount' = r.queryCount
    /\ lookups' = Bump(lookups, Top.spec)
    /\ IF r.kind = "raise" THEN Raise(r.value)
       ELSE /\ stack' = [stack EXCEPT ![Len(stack)].pc = "extract",
                                      ![Len(stack)].path = r.value]
            /\ UNCHANGED <<ret, specs>>

\* a walk that takes the marker of a failed extraction for an error
ExtractedInWalkStrict(r) ==
    /\ Extracted(Top.path, r)
    /\ IF r.kind = "raise" THEN Raise(r.value)
       ELSE IF r.value = None THEN Raise("DistributionNotFound")
       ELSE IF NoDeps(r.value) THEN Return
       ELSE /\ stack' = [stack EXCEPT ![Len(stack)].pc = "loop",
                                      ![Len(stack)].deps = r.value]
            /\ UNCHANGED <<ret, specs>>

\* lines 233-235 after extract_dependencies(path) gave r
ExtractedInWalk(r) ==
    /\ Extracted(Top.path, r)
    /\ IF r.kind = "raise" THEN Raise(r.value)
       ELSE IF NoDeps(r.value) THEN Return
       ELSE /\ stack' = [stack EXCEPT ![Len(stack)].pc = "loop",
                                      ![Len(stack)].deps = r.value]
            /\ UNCHANGED <<ret, specs>>

\* line 232: path = self.get_package_location(str(spec))
WalkLocate ==
    /\ ~ Idle
    /\ Top.pc = "locate"
    /\ \E r \in {get_package_location(link_cache, queryCount, fs, Top.spec)} :
          Located(r)
    /\ UNCHANGED <<fakeVars, dependency_cache, fs, eggBroken, calls, tmpdirs, root,
                   unpackCount, eggInfoCount, extractCalls, returned>>

\* lines 233-235: deps = self.extract_dependencies(path); if not deps: return
WalkExtract ==
    /\ ~ Idle
    /\ Top.pc = "extract"
    /\ \E r \in {extract_dependencies(dependency_cache, unpackCount, eggInfoCount,
                                       tmpdirs, eggBroken, Top.path)} :
          ExtractedInWalk(r)
    /\ UNCHANGED <<fakeVars, lookups, link_cache, fs, eggBroken, calls, root, queryCount,
                   returned>>

\* a loop that goes through the dependency list from its end
DependencyReversed(f) == SpecFromLine(f.deps[Len(f.deps) + 1 - f.i], f.source)

\* line 238: the Spec one pass of the loop makes for the frame f
Dependency(f) == SpecFromLine(f.deps[f.i], f.source)

\* an append that skips a package the list already names
AppendUnlessNamed(list, dependency) ==
    IF \E i \in 1..Len(list) : list[i].name = dependency.name THEN list
    ELSE Append(list, dependency)

\* line 239: specs.append(dependency)
AppendSpec(list, dependency) == Append(list, dependency)

\* a recursive call that is given the spec of its caller
ChildFrameOfCaller(f) == Frame(f.spec, f.spec, "locate", <<>>, <<>>)

\* the frame the recursive call of line 240 starts with
ChildFrame(f) == Frame(SpecStr(Dependency(f)), f.spec, "locate", <<>>, <<>>)

\* the section headers of a requires.txt; Spec.from_line rejects such a line
SectionMarkers == {"[test]", "[dev]"}

ValidLine(line) == line[1] \notin SectionMarkers

\* lines 237-240: one pass of the loop, up to the recursive call
WalkLoop ==
    /\ ~ Idle
    /\ Top.pc = "loop"
    /\ Top.i <= Len(Top.deps)
    /\ ValidLine(Top.deps[Top.i])
    /\ Len(stack) < MaxDepth
    /\ specs' = AppendSpec(specs, Dependency(Top))
    /\ stack' = Append([stack EXCEPT ![Len(stack)].i = @ + 1], ChildFrame(Top))
    /\ UNCHANGED <<fakeVars, lookups, ret, link_cache, dependency_cache, fs, eggBroken, calls,
                   tmpdirs, root, queryCount, unpackCount, eggInfoCount,
                   extractCalls, returned>>

\* line 238 on a line that is no requirement: Spec.from_line raises
WalkBadLine ==
    /\ ~ Idle
    /\ Top.pc = "loop"
    /\ Top.i <= Len(Top.deps)
    /\ ~ ValidLine(Top.deps[Top.i])
    /\ Raise("InvalidSpec")
    /\ UNCHANGED <<fakeVars, lookups, link_cache, dependency_cache, fs, eggBroken, calls,
                   tmpdirs, root, queryCount, unpackCount, eggInfoCount,
                   extractCalls, returned>>

\* the loop is over: get_all_dependencies returns
WalkReturn ==
    /\ ~ Idle
    /\ Top.pc = "loop"
    /\ Top.i > Len(Top.deps)
    /\ Return
    /\ UNCHANGED <<fakeVars, lookups, link_cache, dependency_cache, fs, eggBroken, calls,
                   tmpdirs, root, queryCount, unpackCount, eggInfoCount,
                   extractCalls, returned>>

Next ==
    \/ PMFindBestMatch
    \/ PMGetPackageLocation
    \/ PMExtractDependencies
    \/ PMGetDependencies
    \/ WalkLocate
    \/ WalkExtract
    \/ WalkLoop
    \/ WalkBadLine
    \/ WalkReturn

Spec == InitPM /\ [][Next]_vars

\* a call of get_dependencies that has started runs on: the walk is one
\* synchronous call, its next step is always taken
WalkStep == WalkLocate \/ WalkExtract \/ WalkLoop \/ WalkBadLine \/ WalkReturn

\* one call of get_dependencies on a new PackageManager, followed to its end
FirstCall == calls = 0 /\ PMGetDependencies

NextLive == FirstCall \/ WalkStep

SpecLive == InitPM /\ [][NextLive]_vars /\ WF_vars(WalkStep)

(***************************************************************************)
(* The construction of the in-memory index.                                *)
(***************************************************************************)
\* the keys and the values a caller may hand to the constructor; a value is
\* given with its Python type
NewKeys ==
    {<<"foo", "-", "0.1">>, <<"foo", "-", "bar", "-", "1.0">>, <<"foo">>,
     <<"foo", "-">>, <<"qux0.2">>}

NewValues ==
    {[type |-> "list", items |-> <<>>],
     [type |-> "list", items |-> << <<"bar">> >>],
     [type |-> "tuple", items |-> << <<"bar">> >>]}

NewMappings == UNION {[keys -> NewValues] : keys \in SUBSET NewKeys}

\* lines 58-63 for one item: the exception it raises, "ok" if none
CheckItem(pkg_key, list_of_specs) ==
    IF Len(parse_package_key(pkg_key)) # 2 THEN "ValueError"
    ELSE IF list_of_specs.type # "list" THEN "AssertionError"
    ELSE "ok"

\* the exceptions the loop of lines 57-63 can end with; the order of a dict
\* decides which item is checked first
ItemErrors(fake_contents) ==
    {CheckItem(k, fake_contents[k]) : k \in DOMAIN fake_contents} \ {"ok"}

\* FakePackageManager.__init__(fake_contents): the outcomes it can have
fake_init(fake_contents) ==
    IF ItemErrors(fake_contents) = {}
    THEN {Outcome("__init__", fake_contents, "return", None)}
    ELSE {Outcome("__init__", fake_contents, "raise", e) : e \in ItemErrors(fake_contents)}

InitNew ==
    /\ contents = <<>>
    /\ arg \in NewMappings
    /\ ret = NoCall
    /\ PMIdle

\* FakePackageManager(arg); line 65 keeps the mapping when every item passed
FakeNew ==
    /\ ret.op = "none"
    /\ \E r \in fake_init(arg) :
          /\ ret' = r
          /\ contents' = IF r.kind = "return" THEN [k \in DOMAIN arg |-> arg[k].items]
                         ELSE contents
    /\ UNCHANGED <<arg, pmVars>>

NextNew == FakeNew

SpecNew == InitNew /\ [][NextNew]_vars

(***************************************************************************)
(* Claims about the in-memory index.                                       *)
(***************************************************************************)
\* the versions the index holds for a name
Indexed(name) == {v \in VersionTexts : PkgKey(name, v) \in DOMAIN contents}

Satisfies(v, preds) ==
    \A i \in 1..Len(preds) : matches_qual(v, preds[i][1], preds[i][2])

Satisfying(spec) == {v \in Indexed(spec.name) : Satisfies(v, spec.preds)}

SameVersion(a, b) == NormalizedVersion(a) = NormalizedVersion(b)

\* C1: when some indexed version of spec.name satisfies every predicate,
\* find_best_match returns a version of spec.name that satisfies every
\* predicate, and no satisfying version is greater.
C1_BestMatchIsGreatestSatisfying ==
    (ret.op = "find_best_match" /\ Satisfying(ret.args) # {}) =>
        /\ ret.kind = "return"
        /\ \E v \in Satisfying(ret.args) : SameVersion(v, ret.value)
        /\ \A w \in Satisfying(ret.args) :
              ~ VersionLess(NormalizedVersion(ret.value), NormalizedVersion(w))

\* the example of the spec: [>1.0, <2.0] over {0.9, 1.0, 1.5, 1.9, 2.0} gives 1.9
C1_Witness ==
    /\ ret.op = "find_best_match"
    /\ ret.args.name = <<"pkg">>
    /\ ret.args.preds = << <<">", "1.0">>, <<"<", "2.0">> >>
    /\ {"0.9", "1.0", "1.5", "1.9", "2.0"} \subseteq Indexed(<<"pkg">>)
    /\ ret.kind = "return"
    /\ ret.value = "1.9"

\* C2: find_best_match raises NoPackageMatch exactly when no indexed version
\* of spec.name satisfies every predicate, and returns a version otherwise.
C2_NoPackageMatchIffNoneSatisfies ==
    ret.op = "find_best_match" =>
        /\ (ret.kind = "raise") <=> (Satisfying(ret.args) = {})
        /\ ret.kind = "raise" => ret.value = "NoPackageMatch"
        /\ ret.kind = "return" => ret.value \in VersionTexts

\* the example of the spec: [==3.0] over the same versions fails; so does a
\* name the index does not hold
C2_Witness ==
    /\ ret.op = "find_best_match"
    /\ ret.kind = "raise"
    /\ ret.value = "NoPackageMatch"
    /\ ret.args.name = <<"pkg">>
    /\ ret.args.preds = << <<"==", "3.0">> >>
    /\ {"0.9", "1.0", "1.5", "1.9", "2.0"} \subseteq Indexed(<<"pkg">>)

(***************************************************************************)
(* Claims about get_dependencies and the recursive walk.                   *)
(***************************************************************************)
\* the local path of the archive the repository gives for a spec string
PathOf(line) == get_local_package_path(find_requirement(line).value.url_without_fragment)

Resolves(line) == find_requirement(line).kind = "return"

\* the dependency lines one package declares, as its archive lists them
DeclaredBy(line) ==
    LET a == ArchiveAt(PathOf(line))
    IN  IF PathOf(line) \in eggBroken \/ a.requires = None THEN <<>>
        ELSE ReadDeps(a.requires)

\* the lines name@version itself declares, for the index of either variant
DeclaredLines(name, version) ==
    IF contents # <<>> THEN contents[PkgKey(name, version)]
    ELSE DeclaredBy(name \o <<"==", version>>)

\* C3: get_dependencies(name, version) returns exactly the dependencies that
\* name@version declares itself, one Spec per line in declared order, every
\* one with source = name, and an empty sequence when it declares none.
C3_OwnDependenciesTaggedWithName ==
    (ret.op = "get_dependencies" /\ ret.kind = "return") =>
        LET lines == DeclaredLines(ret.args[1], ret.args[2])
        IN  /\ Len(ret.value) = Len(lines)
            /\ \A i \in 1..Len(lines) :
                  ret.value[i] = SpecFromLine(lines[i], ret.args[1])

\* the package whose dependency list the frame on top is going through
DeclaringPackage == SpecFromLine(Top.spec, None).name

\* C4: every Spec the walk appends is tagged with source equal to the package
\* whose dependency list declared it, at every depth.
C4_SourceIsDeclaringPackage ==
    [][(~ Idle /\ Len(specs') = Len(specs) + 1) =>
          specs'[Len(specs')].source = DeclaringPackage]_vars

\* the expansion of a spec string in depth-first pre-order: each dependency
\* line, followed by everything beneath it, in declared order
RECURSIVE PreOrder(_)
RECURSIVE PreOrderOfList(_)
PreOrder(line) == PreOrderOfList(DeclaredBy(line))

PreOrderOfList(deps) ==
    IF deps = <<>> THEN <<>>
    ELSE <<SpecStr(SpecFromLine(deps[1], None))>>
         \o PreOrder(SpecStr(SpecFromLine(deps[1], None)))
         \o PreOrderOfList(Tail(deps))

Returned == ret.op = "get_dependencies" /\ ret.kind = "return"

\* C5: the result of a walk lists the dependencies in depth-first pre-order,
\* siblings in the order of the declaring package's list.
C5_ResultIsDepthFirstPreOrder ==
    Returned =>
        [i \in 1..Len(ret.value) |-> SpecStr(ret.value[i])] = PreOrder(root)

\* a walk of foo==0.1 that went three levels deep: bar, qux>0.1 and baz
\* beneath it, then the sibling qux and its baz
C5_Witness ==
    /\ Returned
    /\ root = <<"foo", "==", "0.1">>
    /\ [i \in 1..Len(ret.value) |-> ret.value[i].name]
         = << <<"bar">>, <<"qux">>, <<"baz">>, <<"qux">>, <<"baz">> >>

\* the number of dependency lines in the expansion tree of a spec string
RECURSIVE TreeEdges(_)
RECURSIVE TreeEdgesOfList(_)
TreeEdges(line) == TreeEdgesOfList(DeclaredBy(line))

TreeEdgesOfList(deps) ==
    IF deps = <<>> THEN 0
    ELSE 1 + TreeEdges(SpecStr(SpecFromLine(deps[1], None))) + TreeEdgesOfList(Tail(deps))

IsPrefix(s, t) == Len(s) <= Len(t) /\ SubSeq(t, 1, Len(s)) = s

\* C6: the walk never removes or merges an entry, and the result of a
\* terminating walk holds one Spec per dependency line of the expansion tree.
C6_NoDeduplication ==
    /\ [][(~ Idle /\ ~ Idle') => IsPrefix(specs, specs')]_vars
    /\ [](Returned => Len(ret.value) = TreeEdges(root))

\* qux is in the result twice, once beneath bar and once as its sibling
C6_Witness ==
    /\ Returned
    /\ Cardinality({i \in 1..Len(ret.value) : ret.value[i].name = <<"qux">>}) = 2

(***************************************************************************)
(* Claims about the caches.                                                *)
(***************************************************************************)
Count(counter, key) == IF key \in DOMAIN counter THEN counter[key] ELSE 0

\* C7: unpack and metadata generation run at most once for an archive path
\* whose extraction completed, whatever the number of later calls.
C7_ExtractionRunsOncePerPath ==
    \A path \in DOMAIN dependency_cache :
       /\ Count(unpackCount, path) <= 1
       /\ Count(eggInfoCount, path) <= 1

\* extract_dependencies ran twice or more for a path that holds the marker
\* and for a path that holds a dependency list
C7_Witness ==
    /\ \E path \in DOMAIN dependency_cache :
          dependency_cache[path] = None /\ Count(extractCalls, path) >= 2
    /\ \E path \in DOMAIN dependency_cache :
          dependency_cache[path] # None /\ Count(extractCalls, path) >= 2

\* the archive of the package get_dependencies was called for
RootPath == PathOf(ret.args[1] \o <<"==", ret.args[2]>>)

MetadataFailedForRoot ==
    /\ ret.op = "get_dependencies"
    /\ ret.kind # "running"
    /\ Resolves(ret.args[1] \o <<"==", ret.args[2]>>)
    /\ RootPath \in DOMAIN dependency_cache
    /\ dependency_cache[RootPath] = None

\* C8: when metadata generation fails for the archive of name@version, or no
\* requirements listing is found, get_dependencies(name, version) returns an
\* empty sequence and raises nothing, on the first and on every later call.
C8_MetadataFailureGivesEmpty ==
    MetadataFailedForRoot => (ret.kind = "return" /\ ret.value = <<>>)

\* the second get_dependencies for a package whose egg_info fails
C8_Witness ==
    /\ MetadataFailedForRoot
    /\ RootPath \in eggBroken
    /\ extractCalls[RootPath] = 2
    /\ calls = 2
    /\ ret.kind = "return"

\* C9 as stated: the repository query runs at most once per spec string, and
\* every call for one spec string returns the same version.
C9_QueryAtMostOncePerSpecString ==
    /\ \A key \in DOMAIN queryCount : queryCount[key] <= 1
    /\ \A key \in DOMAIN returned : Cardinality(returned[key]) <= 1

\* C9, amended: once a link is memoized for a spec string the repository
\* query never runs again for that string, and every call that returns for
\* that string returns the version of the memoized link.
C9_NoQueryOnceLinkMemoized ==
    /\ [][\A key \in DOMAIN link_cache :
             Count(queryCount', key) = Count(queryCount, key)]_vars
    /\ [](\A key \in DOMAIN returned :
             key \in DOMAIN link_cache /\ returned[key] = {VersionOfLink(link_cache[key])})

\* find_best_match ran twice for a spec string whose link is memoized
C9_Witness ==
    \E key \in DOMAIN link_cache :
       /\ Count(lookups, key) >= 2
       /\ Count(queryCount, key) = 1
       /\ key \in DOMAIN returned

\* C10: get_package_location returns the URL-derived path; an archive that
\* is missing there is downloaded to that path, which is then returned.
C10_LocationReturnsStoredArchive ==
    (ret.op = "get_package_location" /\ Resolves(ret.args)) =>
        /\ ret.kind = "return"
        /\ ret.value = PathOf(ret.args)
        /\ ret.value \in fs

\* C11: every exit of extract_dependencies that created a temporary unpack
\* directory has removed it again: after a normal result, a metadata failure,
\* a missing listing and a failure while unpacking (an unsupported archive
\* extension included), no temporary directory is left.
C11_TemporaryDirectoryRemoved == tmpdirs = {}

\* the listing up to the first line that is blank or opens a section
RECURSIVE UpToSection(_)
UpToSection(requires) ==
    IF requires = <<>> THEN <<>>
    ELSE IF strip(Head(requires)) = <<>> \/ Head(requires)[1] \in SectionMarkers
         THEN <<>>
         ELSE <<strip(Head(requires))>> \o UpToSection(Tail(requires))

\* C12: the dependency list extracted from an archive is exactly the lines of
\* its listing before the first line that is blank or that opens an extras
\* section, whatever the name of the section; neither that line nor any later
\* line becomes a dependency.
C12_ListEndsAtAnySection ==
    \A path \in DOMAIN dependency_cache :
       dependency_cache[path] # None =>
          dependency_cache[path] = UpToSection(ArchiveAt(path).requires)

(***************************************************************************)
(* Claims about failures inside the walk.                                  *)
(***************************************************************************)
\* the frame on top is about to look up a spec string nothing satisfies
NoMatchInBranch == ~ Idle /\ Top.pc = "locate" /\ ~ Resolves(Top.spec)

\* the frame on top is about to unpack an archive of an unsupported kind
UnsupportedInBranch ==
    /\ ~ Idle
    /\ Top.pc = "extract"
    /\ ArchiveAt(Top.path).ext \notin {".tar.gz", ".tar", ".tar.bz2", ".tgz", ".zip"}

Aborted(exc) ==
    /\ Idle'
    /\ ret' = Outcome("get_dependencies", ret.args, "raise", <<exc>>)
    /\ specs' = <<>>

\* C13: when a branch of the walk finds no match for a spec string or meets
\* an archive of an unsupported kind, the whole get_dependencies call fails
\* with that error: every frame is left, no later sibling is walked and no
\* partial result is given.
C13_BranchFailureAbortsWalk ==
    /\ [][/\ NoMatchInBranch => Aborted("DistributionNotFound")
          /\ UnsupportedInBranch => Aborted("AssertionError")]_vars
    /\ []((ret.op = "get_dependencies" /\ ret.kind = "raise") =>
             /\ Idle
             /\ specs = <<>>
             /\ ret.value \in {<<"DistributionNotFound">>, <<"AssertionError">>,
                               <<"AttributeError">>, <<"InvalidSpec">>})

\* the walk of mix==1.0 failed at odd, its first dependency; baz, declared
\* after it, was never looked up
C13_Witness ==
    /\ ret.op = "get_dependencies"
    /\ ret.args[1] = <<"mix">>
    /\ ret.kind = "raise"
    /\ ret.value = <<"AssertionError">>
    /\ Count(lookups, <<"odd">>) = 1
    /\ Count(lookups, <<"baz">>) = 0

\* metadata generation is about to fail for a dependency inside the walk
MetadataFailsInBranch ==
    /\ ~ Idle
    /\ Len(stack) > 1
    /\ Top.pc = "extract"
    /\ Top.path \notin DOMAIN dependency_cache
    /\ Top.path \in eggBroken
    /\ unpack_archive(Top.path)

RECURSIVE IsSubSeq(_, _)
IsSubSeq(s, t) ==
    \/ s = <<>>
    \/ /\ t # <<>>
       /\ IF Head(s) = Head(t) THEN IsSubSeq(Tail(s), Tail(t))
          ELSE IsSubSeq(s, Tail(t))

\* the dependency lines of the root as spec strings
RootLines ==
    [i \in 1..Len(DeclaredBy(root)) |-> SpecStr(SpecFromLine(DeclaredBy(root)[i], None))]

\* C14: a metadata failure for one dependency inside the walk does not abort
\* it: the Spec of that dependency stays in the list, nothing is added
\* beneath it, the declaring frame goes on with its loop, and the result of
\* the walk holds every dependency the root declares, in declared order.
C14_MetadataFailureKeepsWalking ==
    /\ [][MetadataFailsInBranch =>
            (stack' = Pop /\ specs' = specs /\ ret' = ret)]_vars
    /\ [](Returned =>
            IsSubSeq(RootLines, [i \in 1..Len(ret.value) |-> SpecStr(ret.value[i])]))

\* the walk of foo==0.1 when egg_info fails for bar: bar stays, without the
\* qux>0.1 beneath it, and its sibling qux is walked
C14_Witness ==
    /\ Returned
    /\ root = <<"foo", "==", "0.1">>
    /\ PathOf(<<"bar">>) \in eggBroken
    /\ [i \in 1..Len(ret.value) |-> ret.value[i].name]
         = << <<"bar">>, <<"qux">>, <<"baz">> >>

(***************************************************************************)
(* Further claims about the in-memory index.                               *)
(***************************************************************************)
\* C18: the version find_best_match returns names an entry of the index:
\* get_dependencies(spec.name, find_best_match(spec)) never fails with a
\* missing key, also when the text of the indexed version is not its
\* normalized form.
C18_BestMatchNamesAnEntry ==
    [][(ret.op = "find_best_match" /\ ret.kind = "return"
          /\ ret'.op = "get_dependencies") => ret'.kind = "return"]_vars

\* C20: find_best_match does not depend on the order of the predicates: for a
\* spec and the same spec with its predicates reordered it returns the same
\* version, or raises NoPackageMatch for both.
C20_PredicateOrderIsIrrelevant ==
    [][(/\ ret.op = "find_best_match"
        /\ ret'.op = "find_best_match"
        /\ ret'.args.name = ret.args.name
        /\ ret'.args.preds \in Reordered(ret.args.preds)) =>
          (ret'.kind = ret.kind /\ ret'.value = ret.value)]_vars

\* find_best_match returned for [<2.0, >1.0] after it returned for [>1.0, <2.0]
C20_Witness ==
    /\ ret.op = "find_best_match"
    /\ arg.preds = << <<">", "1.0">>, <<"<", "2.0">> >>
    /\ ret.args.preds = << <<"<", "2.0">>, <<">", "1.0">> >>
    /\ ret.kind = "return"
    /\ ret.value = "1.9"

\* a key that holds a hyphen splits into a name and a version
HasHyphen(key) == \E i \in 1..Len(key) : key[i] = "-"

\* C15: the construction of the in-memory index rejects every mapping with a
\* key that does not split into a name and a version at its last hyphen or
\* with a value that is not a list, and accepts every other mapping; a key
\* with several hyphens is accepted and splits at the rightmost one.
C15_ConstructionValidatesItems ==
    ret.op = "__init__" =>
        /\ (ret.kind = "raise") <=>
              (\E k \in DOMAIN arg : ~ HasHyphen(k) \/ arg[k].type # "list")
        /\ ret.kind = "return" =>
              /\ DOMAIN contents = DOMAIN arg
              /\ \A k \in DOMAIN contents :
                    /\ Len(parse_package_key(k)) = 2
                    /\ ~ HasHyphen(parse_package_key(k)[2])
                    /\ parse_package_key(k)[1] \o <<"-">> \o parse_package_key(k)[2] = k

\* an index with the key foo-bar-1.0 was accepted
C15_Witness ==
    /\ ret.op = "__init__"
    /\ ret.kind = "return"
    /\ <<"foo", "-", "bar", "-", "1.0">> \in DOMAIN contents
    /\ parse_package_key(<<"foo", "-", "bar", "-", "1.0">>)
         = << <<"foo", "-", "bar">>, <<"1.0">> >>

(***************************************************************************)
(* Claims about the caches over a run, and about termination.              *)
(***************************************************************************)
\* every entry of the cache before is in the cache after, with its value
Kept(before, after) ==
    \A key \in DOMAIN before : key \in DOMAIN after /\ after[key] = before[key]

\* C17: both caches only grow: a key that is in the link cache or in the
\* dependency cache stays there and keeps its value, whatever is called.
C17_CachesOnlyGrow ==
    [][Kept(link_cache, link_cache') /\ Kept(dependency_cache, dependency_cache')]_vars

\* both caches hold two entries or more after the second call
C17_Witness ==
    /\ calls = 2
    /\ Cardinality(DOMAIN link_cache) >= 2
    /\ Cardinality(DOMAIN dependency_cache) >= 2
    /\ \E path \in DOMAIN dependency_cache : Count(extractCalls, path) >= 2

\* the archives of the two packages that depend on each other
CyclePaths == {PathOf(<<"a">>), PathOf(<<"b">>)}

\* a walk that started at a==1.0 while both archives give their listing
CyclicWalk ==
    /\ ~ Idle
    /\ root = <<"a", "==", "1.0">>
    /\ CyclePaths \subseteq fs \ eggBroken

\* C16: with a cycle below the root (a-1.0 depends on b, b-1.0 on a) the walk
\* never completes: no frame ever returns, every pass appends to the list,
\* and neither cache stops it, though the repository is queried and the
\* archive unpacked only once for each of them.
C16_CyclicWalkNeverCompletes ==
    /\ [][CyclicWalk =>
            /\ Len(stack') >= Len(stack)
            /\ IsPrefix(specs, specs')
            /\ ret' = ret]_vars
    /\ [](CyclicWalk =>
            /\ ret.kind = "running"
            /\ Len(specs) = Len(stack) - 1
            /\ \A key \in {<<"a">>, <<"b">>} : Count(queryCount, key) <= 1
            /\ \A path \in CyclePaths : Count(unpackCount, path) <= 1)

\* the walk is as deep as the model lets it go; b was looked up and extracted
\* twice or more, queried and unpacked once
C16_Witness ==
    /\ CyclicWalk
    /\ Len(specs) = MaxDepth - 1
    /\ Count(lookups, <<"b">>) >= 2
    /\ Count(queryCount, <<"b">>) = 1
    /\ Count(extractCalls, PathOf(<<"b">>)) >= 2
    /\ Count(unpackCount, PathOf(<<"b">>)) = 1

\* the walk of a spec string meets no cycle, and every archive it needs is
\* stored, unpacks, and lists requirements only; fuel bounds the depth
RECURSIVE WalkEnds(_, _)
WalkEnds(line, fuel) ==
    /\ fuel > 0
    /\ Resolves(line)
    /\ PathOf(line) \in fs
    /\ unpack_archive(PathOf(line))
    /\ \A i \in 1..Len(DeclaredBy(line)) :
          /\ ValidLine(DeclaredBy(line)[i])
          /\ WalkEnds(SpecStr(SpecFromLine(DeclaredBy(line)[i], None)), fuel - 1)

\* C19: when the dependency graph below the root is finite and acyclic and
\* every dependency resolves to an archive, the walk started by
\* get_dependencies terminates and returns its result.
C19_AcyclicWalkReturns ==
    (ret.kind = "running" /\ WalkEnds(root, Cardinality(Repository))) ~> Returned

\* the walk of foo==0.1 returned five dependencies
C19_Witness ==
    /\ Returned
    /\ root = <<"foo", "==", "0.1">>
    /\ WalkEnds(root, Cardinality(Repository))
    /\ Len(ret.value) = 5

====
